---- MODULE Spec2Model ----
(***************************************************************************)
(* The symbol table of src/symbol.c: sym_intern, mrb_check_intern,         *)
(* mrb_sym2name_len, mrb_free_symtbl, sym_cmp and the name classifier      *)
(* symname_p.                                                              *)
(*                                                                         *)
(* A byte string is a record [body, rep]: the bytes of body followed by    *)
(* rep copies of the byte FillByte, which never occurs in a body, so two   *)
(* records are equal exactly when the byte strings are.  This keeps names  *)
(* of 65535 and 65536 bytes representable.                                 *)
(***************************************************************************)
EXTENDS Integers, Sequences, FiniteSets, TLC

\* ------------------------------------------------------------------ bounds
MaxLen == 1
MaxSyms == 2
MaxClsLen == 3
MaxOpLen == 4

\* --------------------------------------------------------------- constants
UINT16_MAX == 65535
InitBuckets == 2

\* character codes
ch == [nul |-> 0, dollar |-> 36, at |-> 64, lt |-> 60, gt |-> 62, eq |-> 61,
       star |-> 42, bang |-> 33, plus |-> 43, minus |-> 45, bar |-> 124,
       amp |-> 38, caret |-> 94, slash |-> 47, percent |-> 37, tilde |-> 126,
       backtick |-> 96, lbrack |-> 91, rbrack |-> 93, underscore |-> 95,
       question |-> 63, backslash |-> 92, semicolon |-> 59, comma |-> 44,
       dot |-> 46, colon |-> 58, dquote |-> 34, quote |-> 39, zero |-> 48,
       a |-> 97, z |-> 122, w |-> 119, one |-> 49, two |-> 50, upA |-> 65]

\* the byte that fills the tail of a long name
FillByte == ch.z

Min(a, b) == IF a < b THEN a ELSE b
Max(a, b) == IF a > b THEN a ELSE b

\* --------------------------------------------------------------- byte strings
Alphabet == {ch.a, 200}

RECURSIVE SeqsUpTo(_, _)
SeqsUpTo(S, n) ==
  IF n = 0 THEN {<<>>}
  ELSE LET prev == SeqsUpTo(S, n - 1)
       IN  prev \cup {Append(s, x) : s \in prev, x \in S}

Str(body, rep) == [body |-> body, rep |-> rep]
StrLen(s) == Len(s.body) + s.rep
ByteAt(s, i) == IF i <= Len(s.body) THEN s.body[i] ELSE FillByte
\* the first n bytes of s
Prefix(s, n) ==
  IF n <= Len(s.body) THEN Str(SubSeq(s.body, 1, n), 0)
  ELSE Str(s.body, n - Len(s.body))

ShortNames == {Str(b, 0) : b \in SeqsUpTo(Alphabet, MaxLen)}
\* names of 65535, 65535, 65536 and 131072 bytes
LongNames == {Str(<<>>, UINT16_MAX), Str(<<ch.a>>, UINT16_MAX - 1),
              Str(<<>>, UINT16_MAX + 1), Str(<<>>, 2 * (UINT16_MAX + 1))}
\* a name with an embedded 0 after a valid bare name: "a\0a"
NulNames == {Str(<<ch.a, ch.nul, ch.a>>, 0)}
InputNames == ShortNames \cup LongNames \cup NulNames

RECURSIVE SetToSeq(_)
SetToSeq(S) ==
  IF S = {} THEN <<>>
  ELSE LET x == CHOOSE y \in S : TRUE IN <<x>> \o SetToSeq(S \ {x})

\* the caller's buffers: buffer i holds the bytes NameSeq[i] and then, as a
\* string literal does, a terminator
NameSeq == SetToSeq(InputNames)
NameIdx == 1..Len(NameSeq)

\* ------------------------------------------------------------------ memory
\* A pointer is a segment and an address.  "static" and "stack" pointers
\* point at the caller's buffer of that index; "heap" pointers at a block
\* returned by mrb_malloc.
NullPtr == [seg |-> "null", addr |-> 0]
Ptr(seg, addr) == [seg |-> seg, addr |-> addr]

Deref(mem, p) ==
  IF p.seg = "heap" THEN mem[p.addr].data ELSE NameSeq[p.addr]

\* memcmp(p1, p2, n): bytes compared as unsigned char; the sign is what
\* the callers use.  Past both bodies both strings hold FillByte.
memcmp(a, b, n) ==
  LET m == Min(n, Max(Len(a.body), Len(b.body)))
      D == {i \in 1..m : ByteAt(a, i) # ByteAt(b, i)}
  IN  IF D = {} THEN 0
      ELSE LET i == CHOOSE j \in D : \A l \in D : j <= l
           IN  ByteAt(a, i) - ByteAt(b, i)

\* ------------------------------------------------------------ state
VARIABLES
  name2sym,   \* mrb->name2sym: the n2s hash table
  symidx,     \* mrb->symidx: the last id handed out
  heap,       \* blocks returned by mrb_malloc, by address
  freed,      \* the pointers passed to mrb_free, in order
  phase,      \* "open", "nomem" (mrb_malloc raised), "closed" (after mrb_free_symtbl)
  ret,        \* the last call and what it returned
  interned,   \* history: per caller buffer, the id the first intern of its bytes returned (0: none)
  cname       \* the C string handed to symname_p

vars == <<name2sym, symidx, heap, freed, phase, ret, interned, cname>>

\* -------------------------------------------------------------- hashing
\* sym_hash_func keeps h in a khint_t; the table uses h only modulo its
\* bucket count, a power of two of at most HashMod, and the low 8 bits of
\* (h << 5) - h + *p depend only on the low 8 bits of h and of *p (so they
\* are the same for signed and unsigned plain char).
HashMod == 256

RECURSIVE HashBytes(_, _, _, _)
HashBytes(h, s, i, n) ==
  IF i > n THEN h
  ELSE HashBytes((h * 32 - h + s.body[i]) % HashMod, s, i + 1, n)

\* n further rounds of h = (h << 5) - h + c, as the affine map
\* h |-> A*h + B composed with itself by repeated squaring
RECURSIVE HashRun(_, _)
HashRun(c, n) ==
  IF n = 0 THEN [A |-> 1, B |-> 0]
  ELSE IF n % 2 = 0
       THEN LET r == HashRun(c, n \div 2)
            IN  [A |-> (r.A * r.A) % HashMod, B |-> (r.A * r.B + r.B) % HashMod]
       ELSE LET r == HashRun(c, n - 1)
            IN  [A |-> (31 * r.A) % HashMod, B |-> (31 * r.B + c) % HashMod]

symbol_name(lit, len, name) == [lit |-> lit, len |-> len, name |-> name]

\* a hash that also mixes in the lit flag of the key
sym_hash_func_lit(mem, s) ==
  LET str == Prefix(Deref(mem, s.name), s.len)
      h0  == HashBytes(0, str, 1, Len(str.body))
      r   == HashRun(FillByte, str.rep)
  IN  (r.A * h0 + r.B + (IF s.lit THEN 1 ELSE 0)) % HashMod

sym_hash_func(mem, s) ==
  LET str == Prefix(Deref(mem, s.name), s.len)
      h0  == HashBytes(0, str, 1, Len(str.body))
      r   == HashRun(FillByte, str.rep)
  IN  (r.A * h0 + r.B) % HashMod

\* equality of the name pointers instead of the bytes
sym_hash_equal_ptr(mem, a, b) ==
  a.len = b.len /\ a.name = b.name

\* equality that also compares the lit flag
sym_hash_equal_lit(mem, a, b) ==
  a.lit = b.lit /\ a.len = b.len
  /\ memcmp(Deref(mem, a.name), Deref(mem, b.name), a.len) = 0

\* equality of the lengths only
sym_hash_equal_len(mem, a, b) ==
  a.len = b.len

sym_hash_equal(mem, a, b) ==
  a.len = b.len /\ memcmp(Deref(mem, a.name), Deref(mem, b.name), a.len) = 0

\* ------------------------------------------------------------ khash n2s
EmptySlot == [used |-> FALSE, key |-> symbol_name(FALSE, 0, NullPtr), val |-> 0]

kh_init(n) == [n_buckets |-> n, size |-> 0, slots |-> [k \in 0..(n - 1) |-> EmptySlot]]
kh_end(h) == h.n_buckets
kh_exist(h, k) == h.slots[k].used
kh_key(h, k) == h.slots[k].key
kh_value(h, k) == h.slots[k].val
kh_upper_bound(n) == (3 * n) \div 4

\* the first bucket from k on that is empty or holds a key equal to key
RECURSIVE kh_probe(_, _, _, _)
kh_probe(h, mem, key, k) ==
  IF ~h.slots[k].used THEN k
  ELSE IF sym_hash_equal(mem, h.slots[k].key, key) THEN k
  ELSE kh_probe(h, mem, key, (k + 1) % h.n_buckets)

kh_get(h, mem, key) ==
  LET k == kh_probe(h, mem, key, sym_hash_func(mem, key) % h.n_buckets)
  IN  IF h.slots[k].used THEN k ELSE kh_end(h)

kh_place(h, mem, key, val) ==
  LET k == kh_probe(h, mem, key, sym_hash_func(mem, key) % h.n_buckets)
  IN  [h EXCEPT !.slots[k] = [used |-> TRUE, key |-> key, val |-> val],
                !.size = IF h.slots[k].used THEN h.size ELSE h.size + 1]

RECURSIVE kh_rehash(_, _, _, _)
kh_rehash(old, new, mem, k) ==
  IF k = old.n_buckets THEN new
  ELSE kh_rehash(old,
                 IF old.slots[k].used
                 THEN kh_place(new, mem, old.slots[k].key, old.slots[k].val)
                 ELSE new,
                 mem, k + 1)

kh_resize(h, mem) == kh_rehash(h, kh_init(2 * h.n_buckets), mem, 0)

\* kh_put followed by kh_value(h, k) = val
kh_put(h, mem, key, val) ==
  LET g == IF h.size >= kh_upper_bound(h.n_buckets) THEN kh_resize(h, mem) ELSE h
  IN  kh_place(g, mem, key, val)

Buckets(h) == 0..(h.n_buckets - 1)
Used(h) == {k \in Buckets(h) : kh_exist(h, k)}

\* ---------------------------------------------------------- operations
\* what a call returned: kind is "sym", "nil", "name", "fixnum", "bool" or
\* "void", the display form ("bare", "escaped", "null"), or the exception
\* raised ("ArgumentError", "NoMemoryError");
\* arg and arg2 are the buffer index or the ids passed
Ret(op, arg, arg2, kind, val, len, ptr) ==
  [op |-> op, arg |-> arg, arg2 |-> arg2, kind |-> kind, val |-> val,
   len |-> len, ptr |-> ptr]
NoRet == Ret("none", 0, 0, "none", 0, 0, NullPtr)

\* len > UINT16_MAX + 1
TooLongOffByOne(len) == len > UINT16_MAX + 1

\* len > UINT16_MAX, the test of sym_intern and mrb_check_intern
TooLong(len) == len > UINT16_MAX
\* the conversion of a size_t to the uint16_t field len
ToUint16(len) == len % (UINT16_MAX + 1)

\* sym = mrb->symidx++
PostIncrement(idx) == [sym |-> idx, symidx |-> idx + 1]

\* sym = ++mrb->symidx: the id handed out and the new counter
PreIncrement(idx) == [sym |-> idx + 1, symidx |-> idx + 1]

\* mrb_malloc(mrb, size) either returns a fresh block or raises
mrb_malloc(mem, size) == Len(mem) + 1

\* memcpy(p, name, len - 1): one byte short
CopyBlockShort(mem, name, len) ==
  [data |-> Prefix(Deref(mem, name), len - 1), size |-> len + 1]

\* memcpy(p, name, len); p[len] = 0: the block holds the first len bytes
\* of the caller's buffer and then the terminator
CopyBlock(mem, name, len) ==
  [data |-> Prefix(Deref(mem, name), len), size |-> len + 1]

\* sym_intern with the copy made before the lookup
sym_intern_copyfirst(h, idx, mem, name, len, lit, ok) ==
  IF TooLong(len)
  THEN [h |-> h, symidx |-> idx, heap |-> mem, phase |-> "open",
        kind |-> "ArgumentError", val |-> 0]
  ELSE IF ~lit /\ ~ok
  THEN [h |-> h, symidx |-> idx, heap |-> mem, phase |-> "nomem",
        kind |-> "NoMemoryError", val |-> 0]
  ELSE
    LET mem2  == IF lit THEN mem ELSE Append(mem, CopyBlock(mem, name, len))
        sname == symbol_name(lit, ToUint16(len),
                             IF lit THEN name ELSE Ptr("heap", Len(mem2)))
        k     == kh_get(h, mem2, sname)
        inc   == PreIncrement(idx)
    IN  IF k # kh_end(h)
        THEN [h |-> h, symidx |-> idx, heap |-> mem2, phase |-> "open",
              kind |-> "sym", val |-> kh_value(h, k)]
        ELSE [h |-> kh_put(h, mem2, sname, inc.sym), symidx |-> inc.symidx,
              heap |-> mem2, phase |-> "open", kind |-> "sym", val |-> inc.sym]

\* sym_intern: the table, counter, heap and phase after the call, and its
\* outcome.  ok tells whether mrb_malloc succeeds when it is called.
sym_intern(h, idx, mem, name, len, lit, ok) ==
  IF TooLong(len)
  THEN [h |-> h, symidx |-> idx, heap |-> mem, phase |-> "open",
        kind |-> "ArgumentError", val |-> 0]
  ELSE
    LET sname == symbol_name(lit, ToUint16(len), name)
        k     == kh_get(h, mem, sname)
        inc   == PreIncrement(idx)
        sym   == inc.sym
    IN  IF k # kh_end(h)
        THEN [h |-> h, symidx |-> idx, heap |-> mem, phase |-> "open",
              kind |-> "sym", val |-> kh_value(h, k)]
        ELSE IF lit
        THEN [h |-> kh_put(h, mem, sname, sym), symidx |-> inc.symidx, heap |-> mem,
              phase |-> "open", kind |-> "sym", val |-> sym]
        ELSE IF ~ok
        THEN [h |-> h, symidx |-> inc.symidx, heap |-> mem, phase |-> "nomem",
              kind |-> "NoMemoryError", val |-> 0]
        ELSE
          LET p    == mrb_malloc(mem, len + 1)
              mem2 == Append(mem, CopyBlock(mem, name, len))
              key  == symbol_name(lit, sname.len, Ptr("heap", p))
          IN  [h |-> kh_put(h, mem2, key, sym), symidx |-> inc.symidx, heap |-> mem2,
               phase |-> "open", kind |-> "sym", val |-> sym]

\* mrb_check_intern that enters the string when it is absent
mrb_check_intern_put(h, mem, name, len) ==
  IF TooLong(len)
  THEN [h |-> h, heap |-> mem, kind |-> "ArgumentError", val |-> 0]
  ELSE
    LET sname == symbol_name(FALSE, ToUint16(len), name)
        k     == kh_get(h, mem, sname)
    IN  IF k # kh_end(h)
        THEN [h |-> h, heap |-> mem, kind |-> "sym", val |-> kh_value(h, k)]
        ELSE [h |-> kh_put(h, mem, sname, 0), heap |-> mem,
              kind |-> "nil", val |-> 0]

\* mrb_check_intern: nil or the symbol value, or a raise, with the table and
\* the heap as the call leaves them (it only calls kh_get)
mrb_check_intern(h, mem, name, len) ==
  IF TooLong(len)
  THEN [h |-> h, heap |-> mem, kind |-> "ArgumentError", val |-> 0]
  ELSE
    LET sname == symbol_name(FALSE, ToUint16(len), name)
        k     == kh_get(h, mem, sname)
    IN  IF k # kh_end(h)
        THEN [h |-> h, heap |-> mem, kind |-> "sym", val |-> kh_value(h, k)]
        ELSE [h |-> h, heap |-> mem, kind |-> "nil", val |-> 0]

\* the scan started at bucket 1 instead of kh_begin
mrb_sym2name_len_from1(h, sym) ==
  LET M == {k \in Buckets(h) : k >= 1 /\ kh_exist(h, k) /\ kh_value(h, k) = sym}
  IN  IF M # {}
      THEN LET k == CHOOSE j \in M : \A l \in M : j <= l
           IN  [name |-> kh_key(h, k).name, len |-> kh_key(h, k).len]
      ELSE [name |-> NullPtr, len |-> 0]

\* mrb_sym2name_len: the first bucket in table order whose value is sym
mrb_sym2name_len(h, sym) ==
  LET M == {k \in Buckets(h) : kh_exist(h, k) /\ kh_value(h, k) = sym}
  IN  IF M # {}
      THEN LET k == CHOOSE j \in M : \A l \in M : j <= l
           IN  [name |-> kh_key(h, k).name, len |-> kh_key(h, k).len]
      ELSE [name |-> NullPtr, len |-> 0]

\* the loop without the test of lit
RECURSIVE FreeLoopAll(_, _)
FreeLoopAll(h, k) ==
  IF k = kh_end(h) THEN <<>>
  ELSE IF kh_exist(h, k)
       THEN <<kh_key(h, k).name>> \o FreeLoopAll(h, k + 1)
       ELSE FreeLoopAll(h, k + 1)

\* the loop of mrb_free_symtbl: the pointers it frees from bucket k on
RECURSIVE FreeLoop(_, _)
FreeLoop(h, k) ==
  IF k = kh_end(h) THEN <<>>
  ELSE IF kh_exist(h, k) /\ ~kh_key(h, k).lit
       THEN <<kh_key(h, k).name>> \o FreeLoop(h, k + 1)
       ELSE FreeLoop(h, k + 1)

\* kh_destroy leaves no table
kh_destroy(h) == kh_init(0)

lesser(a, b) == IF a > b THEN b ELSE a

\* sym_cmp with the two length outcomes exchanged
sym_cmp_swapped(h, mem, sym1, sym2) ==
  IF sym1 = sym2 THEN 0
  ELSE
    LET n1     == mrb_sym2name_len(h, sym1)
        n2     == mrb_sym2name_len(h, sym2)
        len    == lesser(n1.len, n2.len)
        retval == memcmp(Deref(mem, n1.name), Deref(mem, n2.name), len)
    IN  IF retval = 0
        THEN IF n1.len = n2.len THEN 0
             ELSE IF n1.len > n2.len THEN -1 ELSE 1
        ELSE IF retval > 0 THEN 1 ELSE -1

\* sym_cmp that stops at the common prefix
sym_cmp_prefix(h, mem, sym1, sym2) ==
  IF sym1 = sym2 THEN 0
  ELSE
    LET n1     == mrb_sym2name_len(h, sym1)
        n2     == mrb_sym2name_len(h, sym2)
        len    == lesser(n1.len, n2.len)
        retval == memcmp(Deref(mem, n1.name), Deref(mem, n2.name), len)
    IN  IF retval = 0 THEN 0
        ELSE IF retval > 0 THEN 1 ELSE -1

\* sym_cmp on two symbol values
sym_cmp(h, mem, sym1, sym2) ==
  IF sym1 = sym2 THEN 0
  ELSE
    LET n1     == mrb_sym2name_len(h, sym1)
        n2     == mrb_sym2name_len(h, sym2)
        len    == lesser(n1.len, n2.len)
        retval == memcmp(Deref(mem, n1.name), Deref(mem, n2.name), len)
    IN  IF retval = 0
        THEN IF n1.len = n2.len THEN 0
             ELSE IF n1.len > n2.len THEN 1 ELSE -1
        ELSE IF retval > 0 THEN 1 ELSE -1

\* the return statement sym_cmp leaves by: "same" for sym1 == sym2, "equal"
\* for equal bytes and equal lengths, "longer"/"shorter" for equal common
\* bytes, "greater"/"less" by memcmp
sym_cmp_return(h, mem, sym1, sym2) ==
  IF sym1 = sym2 THEN "same"
  ELSE
    LET n1     == mrb_sym2name_len(h, sym1)
        n2     == mrb_sym2name_len(h, sym2)
        len    == lesser(n1.len, n2.len)
        retval == memcmp(Deref(mem, n1.name), Deref(mem, n2.name), len)
    IN  IF retval = 0
        THEN IF n1.len = n2.len THEN "equal"
             ELSE IF n1.len > n2.len THEN "longer" ELSE "shorter"
        ELSE IF retval > 0 THEN "greater" ELSE "less"

\* ------------------------------------------------------ name classifier
\* A C string is a possibly null char pointer; its bytes, and then rep
\* copies of FillByte, are followed by the terminator 0 (bytes may hold an
\* embedded 0, where every scan stops).
CStr(bytes) == [null |-> FALSE, bytes |-> bytes, rep |-> 0]
NullCStr == [null |-> TRUE, bytes |-> <<>>, rep |-> 0]
At(s, m) ==
  IF m <= Len(s.bytes) THEN s.bytes[m]
  ELSE IF m <= Len(s.bytes) + s.rep THEN FillByte ELSE 0

\* the C string that starts at pointer p: a stored name and its terminator
CStrAt(mem, p) ==
  IF p = NullPtr THEN NullCStr
  ELSE [null |-> FALSE, bytes |-> Deref(mem, p).body, rep |-> Deref(mem, p).rep]

\* strlen(name)
strlen(s) ==
  LET Z == {i \in 1..Len(s.bytes) : s.bytes[i] = 0}
  IN  IF Z = {} THEN Len(s.bytes) + s.rep
      ELSE (CHOOSE i \in Z : \A j \in Z : i <= j) - 1

ISDIGIT(c) == c >= 48 /\ c <= 57
ISUPPER(c) == c >= 65 /\ c <= 90
ISLOWER(c) == c >= 97 /\ c <= 122
ISALPHA(c) == ISUPPER(c) \/ ISLOWER(c)
ISALNUM(c) == ISALPHA(c) \/ ISDIGIT(c)

SIGN_EXTEND_CHAR(c) == IF c >= 128 THEN c - 256 ELSE c
is_identchar(c) == SIGN_EXTEND_CHAR(c) # -1 /\ (ISALNUM(c) \/ c = ch.underscore)

\* while (is_identchar(*m)) m += 1;  (a run of FillByte is passed in one step)
RECURSIVE SkipIdent(_, _)
SkipIdent(s, m) ==
  IF ~is_identchar(At(s, m)) THEN m
  ELSE IF m > Len(s.bytes) THEN SkipIdent(s, Len(s.bytes) + s.rep + 1)
  ELSE SkipIdent(s, m + 1)

\* do ++m; while (ISDIGIT(*m));
RECURSIVE SkipDigits(_, _)
SkipDigits(s, m) == IF ISDIGIT(At(s, m + 1)) THEN SkipDigits(s, m + 1) ELSE m + 1

\* the case labels without '0'
SpecialGlobalCharsNoZero ==
  {ch.tilde, ch.star, ch.dollar, ch.question, ch.bang, ch.at, ch.slash,
   ch.backslash, ch.semicolon, ch.comma, ch.dot, ch.eq, ch.colon, ch.lt,
   ch.gt, ch.dquote, ch.amp, ch.backtick, ch.quote, ch.plus}

SpecialGlobalChars ==
  {ch.tilde, ch.star, ch.dollar, ch.question, ch.bang, ch.at, ch.slash,
   ch.backslash, ch.semicolon, ch.comma, ch.dot, ch.eq, ch.colon, ch.lt,
   ch.gt, ch.dquote, ch.amp, ch.backtick, ch.quote, ch.plus, ch.zero}

\* is_special_global_name(m), m a position in s
is_special_global_name(s, m) ==
  LET c == At(s, m)
  IN  IF c \in SpecialGlobalChars THEN At(s, m + 1) = 0
      ELSE IF c = ch.minus
      THEN (IF is_identchar(At(s, m + 1)) THEN At(s, m + 2) = 0
            ELSE At(s, m + 1) = 0)
      ELSE IF ~ISDIGIT(c) THEN FALSE
      ELSE At(s, SkipDigits(s, m)) = 0

\* the code from the label id on, taking the suffix whatever localid is
SymnameIdAnySuffix(s, m, localid) ==
  IF At(s, m) # ch.underscore /\ ~ISALPHA(At(s, m)) THEN FALSE
  ELSE LET m2 == SkipIdent(s, m)
           m3 == IF At(s, m2) \in {ch.bang, ch.question, ch.eq}
                 THEN m2 + 1 ELSE m2
       IN  At(s, m3) = 0

\* the code from the label id to the final return of symname_p
SymnameId(s, m, localid) ==
  IF At(s, m) # ch.underscore /\ ~ISALPHA(At(s, m)) THEN FALSE
  ELSE LET m2 == SkipIdent(s, m)
           m3 == IF localid /\ At(s, m2) \in {ch.bang, ch.question, ch.eq}
                 THEN m2 + 1 ELSE m2
       IN  At(s, m3) = 0

\* case '+': case '-': ++m; without the test for '@'
PlusMinusEndNoAt(s) == 2

\* case '+': case '-': if (*++m == '@') ++m; the position after the case
PlusMinusEnd(s) == IF At(s, 2) = ch.at THEN 3 ELSE 2

\* case '=' with default: break; in place of default: return FALSE;
EqCaseBreak(s) ==
  IF At(s, 2) = ch.tilde THEN At(s, 3) = 0
  ELSE IF At(s, 2) = ch.eq
       THEN At(s, IF At(s, 3) = ch.eq THEN 4 ELSE 3) = 0
       ELSE At(s, 2) = 0

\* case '=': "=~", "==", "==="; anything else returns FALSE
EqCase(s) ==
  IF At(s, 2) = ch.tilde THEN At(s, 3) = 0
  ELSE IF At(s, 2) = ch.eq
       THEN At(s, IF At(s, 3) = ch.eq THEN 4 ELSE 3) = 0
       ELSE FALSE

symname_p(s) ==
  IF s.null THEN FALSE
  ELSE
    LET c == At(s, 1)
    IN  CASE c = ch.nul -> FALSE
          [] c = ch.dollar ->
               IF is_special_global_name(s, 2) THEN TRUE
               ELSE SymnameId(s, 2, FALSE)
          [] c = ch.at ->
               SymnameId(s, IF At(s, 2) = ch.at THEN 3 ELSE 2, FALSE)
          [] c = ch.lt ->
               LET m == IF At(s, 2) = ch.lt THEN 3
                        ELSE IF At(s, 2) = ch.eq
                             THEN (IF At(s, 3) = ch.gt THEN 4 ELSE 3)
                             ELSE 2
               IN  At(s, m) = 0
          [] c = ch.gt ->
               At(s, IF At(s, 2) \in {ch.gt, ch.eq} THEN 3 ELSE 2) = 0
          [] c = ch.eq -> EqCase(s)
          [] c = ch.star -> At(s, IF At(s, 2) = ch.star THEN 3 ELSE 2) = 0
          [] c = ch.bang -> At(s, IF At(s, 2) = ch.eq THEN 3 ELSE 2) = 0
          [] c \in {ch.plus, ch.minus} -> At(s, PlusMinusEnd(s)) = 0
          [] c = ch.bar -> At(s, IF At(s, 2) = ch.bar THEN 3 ELSE 2) = 0
          [] c = ch.amp -> At(s, IF At(s, 2) = ch.amp THEN 3 ELSE 2) = 0
          [] c \in {ch.caret, ch.slash, ch.percent, ch.tilde, ch.backtick} ->
               At(s, 2) = 0
          [] c = ch.lbrack ->
               IF At(s, 2) # ch.rbrack THEN FALSE
               ELSE At(s, IF At(s, 3) = ch.eq THEN 4 ELSE 3) = 0
          [] OTHER -> SymnameId(s, 1, ~ISUPPER(c))

\* sym_inspect without the comparison of strlen(name) and len
sym_inspect_nolen(h, mem, sym) ==
  LET n == mrb_sym2name_len(h, sym)
  IN  [form |-> IF ~symname_p(CStrAt(mem, n.name)) THEN "escaped" ELSE "bare",
       name |-> n.name, len |-> n.len]

\* sym_inspect: ":" and the name, or the result of mrb_str_dump on it
sym_inspect(h, mem, sym) ==
  LET n == mrb_sym2name_len(h, sym)
  IN  [form |-> IF ~symname_p(CStrAt(mem, n.name))
                   \/ strlen(CStrAt(mem, n.name)) # n.len
                THEN "escaped" ELSE "bare",
       name |-> n.name, len |-> n.len]

\* mrb_sym2name: NULL, the name itself, or the result of mrb_str_dump
mrb_sym2name(h, mem, sym) ==
  LET n == mrb_sym2name_len(h, sym)
  IN  IF n.name = NullPtr THEN [form |-> "null", name |-> NullPtr, len |-> 0]
      ELSE [form |-> IF symname_p(CStrAt(mem, n.name))
                        /\ strlen(CStrAt(mem, n.name)) = n.len
                     THEN "bare" ELSE "escaped",
            name |-> n.name, len |-> n.len]

\* ------------------------------------------------------------- actions
ClsAlphabet == {ch.nul, ch.plus, ch.at, ch.a}
ClsInputs == {CStr(b) : b \in SeqsUpTo(ClsAlphabet, MaxClsLen)}

\* mrb_init_symtbl, symidx = 0
InitRegistry ==
  /\ name2sym = kh_init(InitBuckets)
  /\ symidx = 0
  /\ heap = <<>>
  /\ freed = <<>>
  /\ phase = "open"
  /\ ret = NoRet
  /\ interned = [i \in NameIdx |-> 0]

Init ==
  /\ InitRegistry
  /\ cname = CStr(<<>>)

\* sym_intern called on the caller's buffer i with its full length
DoIntern(op, seg, i, lit) ==
  /\ phase = "open"
  /\ \E ok \in BOOLEAN :
       LET r == sym_intern(name2sym, symidx, heap, Ptr(seg, i),
                           StrLen(NameSeq[i]), lit, ok)
       IN  /\ r.symidx <= MaxSyms
           /\ name2sym' = r.h
           /\ symidx' = r.symidx
           /\ heap' = r.heap
           /\ phase' = r.phase
           /\ ret' = Ret(op, i, 0, r.kind, r.val, 0, NullPtr)
           /\ interned' = IF r.kind = "sym" /\ interned[i] = 0
                          THEN [interned EXCEPT ![i] = r.val]
                          ELSE interned
  /\ UNCHANGED <<freed, cname>>

Call_mrb_intern(i) == DoIntern("mrb_intern", "stack", i, FALSE)

Call_mrb_intern_static(i) == DoIntern("mrb_intern_static", "static", i, TRUE)

Call_mrb_check_intern(i) ==
  /\ phase = "open"
  /\ LET r == mrb_check_intern(name2sym, heap, Ptr("stack", i), StrLen(NameSeq[i]))
     IN  /\ name2sym' = r.h
         /\ heap' = r.heap
         /\ ret' = Ret("mrb_check_intern", i, 0, r.kind, r.val, 0, NullPtr)
  /\ UNCHANGED <<symidx, freed, phase, interned, cname>>

Call_mrb_sym2name_len(sym) ==
  /\ phase = "open"
  /\ LET r == mrb_sym2name_len(name2sym, sym)
     IN  ret' = Ret("mrb_sym2name_len", sym, 0, "name", 0, r.len, r.name)
  /\ UNCHANGED <<name2sym, symidx, heap, freed, phase, interned, cname>>

\* the symbol values a program holds are those of the table's entries
LiveSyms == {kh_value(name2sym, k) : k \in Used(name2sym)}

Call_sym_cmp(sym1, sym2) ==
  /\ phase = "open"
  /\ sym1 \in LiveSyms /\ sym2 \in LiveSyms
  /\ ret' = Ret("sym_cmp", sym1, sym2, "fixnum",
                sym_cmp(name2sym, heap, sym1, sym2), 0, NullPtr)
  /\ UNCHANGED <<name2sym, symidx, heap, freed, phase, interned, cname>>

Call_sym_inspect(sym) ==
  /\ phase = "open"
  /\ sym \in LiveSyms
  /\ LET r == sym_inspect(name2sym, heap, sym)
     IN  ret' = Ret("sym_inspect", sym, 0, r.form, 0, r.len, r.name)
  /\ UNCHANGED <<name2sym, symidx, heap, freed, phase, interned, cname>>

Call_mrb_sym2name(sym) ==
  /\ phase = "open"
  /\ LET r == mrb_sym2name(name2sym, heap, sym)
     IN  ret' = Ret("mrb_sym2name", sym, 0, r.form, 0, r.len, r.name)
  /\ UNCHANGED <<name2sym, symidx, heap, freed, phase, interned, cname>>

Call_mrb_free_symtbl ==
  /\ phase \in {"open", "nomem"}
  /\ freed' = freed \o FreeLoop(name2sym, 0)
  /\ name2sym' = kh_destroy(name2sym)
  /\ phase' = "closed"
  /\ ret' = Ret("mrb_free_symtbl", 0, 0, "void", 0, 0, NullPtr)
  /\ UNCHANGED <<symidx, heap, interned, cname>>

Next ==
  \/ \E i \in NameIdx : Call_mrb_intern(i)
  \/ \E i \in NameIdx : Call_mrb_intern_static(i)
  \/ \E i \in NameIdx : Call_mrb_check_intern(i)
  \/ \E sym \in 0..(MaxSyms + 1) : Call_mrb_sym2name_len(sym)
  \/ \E sym1, sym2 \in 1..MaxSyms : Call_sym_cmp(sym1, sym2)
  \/ \E sym \in 1..MaxSyms : Call_sym_inspect(sym)
  \/ \E sym \in 0..(MaxSyms + 1) : Call_mrb_sym2name(sym)
  \/ Call_mrb_free_symtbl

Spec == Init /\ [][Next]_vars

\* The classifier on its own: symname_p applied to a bounded set of C strings
InitCls ==
  /\ InitRegistry
  /\ cname \in ClsInputs

Call_symname_p ==
  /\ ret = NoRet
  /\ ret' = Ret("symname_p", 0, 0, "bool", IF symname_p(cname) THEN 1 ELSE 0, 0, NullPtr)
  /\ UNCHANGED <<name2sym, symidx, heap, freed, phase, interned, cname>>

NextCls == Call_symname_p

SpecCls == InitCls /\ [][NextCls]_vars

\* ------------------------------------------------------------ properties
InternOps == {"mrb_intern", "mrb_intern_static"}
\* the bytes an entry of the table stands for
EntryBytes(k) == Prefix(Deref(heap, kh_key(name2sym, k).name), kh_key(name2sym, k).len)
\* the buffers whose bytes have been interned
Interned == {i \in NameIdx : interned[i] # 0}

\* C1: every intern call (either mode) on given bytes returns the id that
\* the first intern call on those bytes returned.
C1_InternIdempotent ==
  (ret.op \in InternOps /\ ret.kind = "sym") => ret.val = interned[ret.arg]

\* an owned-mode intern has returned the id of an entry made in borrowed mode
C1_Witness ==
  /\ ret.op = "mrb_intern" /\ ret.kind = "sym"
  /\ \E k \in Used(name2sym) :
       kh_value(name2sym, k) = ret.val /\ kh_key(name2sym, k).lit

\* C2: different byte strings get different ids, and no two entries of the
\* table carry the same id.
C2_Uniqueness ==
  /\ \A i, j \in Interned : i # j => interned[i] # interned[j]
  /\ \A k1, k2 \in Used(name2sym) :
       k1 # k2 => kh_value(name2sym, k1) # kh_value(name2sym, k2)

\* two different strings that hash to the same bucket are both interned
C2_Witness ==
  /\ Cardinality(Interned) = 2
  /\ \E k1, k2 \in Used(name2sym) :
       /\ k1 # k2
       /\ sym_hash_func(heap, kh_key(name2sym, k1)) % name2sym.n_buckets
            = sym_hash_func(heap, kh_key(name2sym, k2)) % name2sym.n_buckets

\* C3: the counter starts at 0; an intern call on the k-th distinct string
\* returns k and advances the counter by one; a call that finds its string
\* leaves the counter alone; the id returned belongs to no other string.
C3_MonotonicAllocation ==
  [][ /\ (Interned = {} /\ phase = "open") => symidx = 0
      /\ (ret'.op \in InternOps /\ ret'.kind = "sym") =>
           /\ \A j \in Interned : j # ret'.arg => interned[j] # ret'.val
           /\ IF ret'.arg \in Interned
              THEN symidx' = symidx
              ELSE /\ ret'.val = Cardinality(Interned) + 1
                   /\ symidx' = symidx + 1 ]_vars

\* the second distinct string interned has received id 2
C3_Witness ==
  /\ ret.op \in InternOps /\ ret.kind = "sym" /\ ret.val = 2
  /\ symidx = 2 /\ Cardinality(Interned) = 2

\* C4: the table never holds two entries for the same bytes; once a string
\* is interned, in whichever modes, it has exactly one entry, and that
\* entry carries the id the call returned.
C4_NoDuplicateEntries ==
  phase # "closed" =>
    /\ \A k1, k2 \in Used(name2sym) : k1 # k2 => EntryBytes(k1) # EntryBytes(k2)
    /\ \A i \in Interned :
         Cardinality({k \in Used(name2sym) : EntryBytes(k) = NameSeq[i]}) = 1
    /\ (ret.op \in InternOps /\ ret.kind = "sym") =>
         \E k \in Used(name2sym) :
           EntryBytes(k) = NameSeq[ret.arg] /\ kh_value(name2sym, k) = ret.val

\* a borrowed-mode intern has returned the id of an entry made in owned mode
C4_Witness ==
  /\ ret.op = "mrb_intern_static" /\ ret.kind = "sym"
  /\ \E k \in Used(name2sym) :
       /\ kh_value(name2sym, k) = ret.val
       /\ ~kh_key(name2sym, k).lit
       /\ EntryBytes(k) = NameSeq[ret.arg]

\* C5: before teardown, the reverse lookup of the id of an interned string
\* yields the length and the bytes of that string.
C5_RoundTrip ==
  phase # "closed" =>
    \A i \in Interned :
      LET r == mrb_sym2name_len(name2sym, interned[i])
      IN  /\ r.name # NullPtr
          /\ r.len = StrLen(NameSeq[i])
          /\ Prefix(Deref(heap, r.name), r.len) = NameSeq[i]

\* the first symbol, stored as a heap copy, looked up after a second intern
C5_Witness ==
  /\ ret.op = "mrb_sym2name_len" /\ ret.arg = 1 /\ ret.ptr.seg = "heap"
  /\ symidx = 2 /\ Cardinality(Interned) = 2

\* C6: before teardown, mrb_check_intern on a string of at most 65535 bytes
\* returns nil as long as the string has not been interned, and afterwards
\* returns the id that intern returned for it.
C6_ProbeBeforeInsert ==
  phase = "open" =>
    /\ \A i \in NameIdx :
         StrLen(NameSeq[i]) <= UINT16_MAX =>
           LET r == mrb_check_intern(name2sym, heap, Ptr("stack", i),
                                     StrLen(NameSeq[i]))
           IN  /\ r.kind = (IF i \in Interned THEN "sym" ELSE "nil")
               /\ r.val = (IF i \in Interned THEN interned[i] ELSE 0)
    /\ (ret.op = "mrb_check_intern" /\ ret.kind # "ArgumentError") =>
         /\ ret.kind = (IF ret.arg \in Interned THEN "sym" ELSE "nil")
         /\ ret.val = interned[ret.arg]

\* a probe has returned the id of the second string, interned as a literal
C6_Witness ==
  /\ ret.op = "mrb_check_intern" /\ ret.kind = "sym" /\ ret.val = 2
  /\ \E k \in Used(name2sym) :
       kh_value(name2sym, k) = 2 /\ kh_key(name2sym, k).lit

\* C7: intern, intern_static and check_intern raise exactly for lengths
\* above 65535; a call that raises so leaves table, counter, heap and phase
\* as they were, so that every probe answers as before (in particular for
\* the prefixes of the rejected string); no stored entry is longer than
\* 65535 bytes.
C7_LengthBoundary ==
  [][ /\ (ret'.op \in InternOps \cup {"mrb_check_intern"}) =>
           (ret'.kind = "ArgumentError" <=> StrLen(NameSeq[ret'.arg]) > UINT16_MAX)
      /\ ret'.kind = "ArgumentError" =>
           /\ name2sym' = name2sym /\ symidx' = symidx /\ heap' = heap
           /\ freed' = freed /\ phase' = phase /\ interned' = interned
           /\ \A j \in NameIdx :
                (/\ StrLen(NameSeq[j]) <= UINT16_MAX
                 /\ NameSeq[j] = Prefix(NameSeq[ret'.arg], StrLen(NameSeq[j]))
                 /\ j \notin Interned)
                => mrb_check_intern(name2sym', heap', Ptr("stack", j),
                                    StrLen(NameSeq[j])).kind = "nil"
      /\ \A k \in Used(name2sym') :
           /\ kh_key(name2sym', k).len <= UINT16_MAX
           /\ \E i \in NameIdx :
                /\ interned'[i] = kh_value(name2sym', k)
                /\ StrLen(NameSeq[i]) = kh_key(name2sym', k).len ]_vars

\* a call has been rejected while a name of 65535 bytes is in the table
C7_Witness ==
  /\ ret.kind = "ArgumentError"
  /\ \E k \in Used(name2sym) : kh_key(name2sym, k).len = UINT16_MAX

\* how often pointer p was passed to mrb_free
Frees(f, p) == Cardinality({j \in 1..Len(f) : f[j] = p})

\* C8: mrb_free_symtbl frees the bytes of every entry stored as a copy
\* exactly once and of no entry stored by reference; afterwards every block
\* that intern allocated has been freed exactly once and nothing else has.
C8_Teardown ==
  [][ phase' = "closed" =>
        /\ \A k \in Used(name2sym) :
             Frees(freed', kh_key(name2sym, k).name)
               = IF kh_key(name2sym, k).lit THEN 0 ELSE 1
        /\ \A a \in 1..Len(heap') : Frees(freed', Ptr("heap", a)) = 1
        /\ \A j \in 1..Len(freed') :
             freed'[j].seg = "heap" /\ freed'[j].addr \in 1..Len(heap') ]_vars

\* teardown of a table with one copied and one borrowed entry
C8_Witness ==
  /\ phase = "closed" /\ Len(freed) = 1 /\ Len(heap) = 1
  /\ Cardinality(Interned) = 2

\* lexicographic order of two byte strings, bytes as unsigned values:
\* -1 when s is a proper prefix of t or is smaller at the first difference
LexCmp(s, t) ==
  LET n == lesser(StrLen(s), StrLen(t))
      m == lesser(n, Max(Len(s.body), Len(t.body)) + 1)
  IN  IF s = t THEN 0
      ELSE IF \E i \in 1..m : /\ \A j \in 1..(i - 1) : ByteAt(s, j) = ByteAt(t, j)
                              /\ ByteAt(s, i) < ByteAt(t, i)
           THEN -1
      ELSE IF StrLen(s) < StrLen(t) /\ Prefix(t, StrLen(s)) = s THEN -1
      ELSE 1

\* the interned string that has id sym
NameOf(sym) == NameSeq[CHOOSE i \in Interned : interned[i] = sym]

\* C9: on the ids of interned strings sym_cmp is 0 on equal ids, is the
\* lexicographic order of the names (unsigned bytes, a proper prefix first)
\* and is antisymmetric.
C9_Ordering ==
  phase = "open" =>
    /\ \A a, b \in LiveSyms :
         /\ sym_cmp(name2sym, heap, a, b) = LexCmp(NameOf(a), NameOf(b))
         /\ sym_cmp(name2sym, heap, a, b) = 0 - sym_cmp(name2sym, heap, b, a)
         /\ sym_cmp(name2sym, heap, a, a) = 0
    /\ ret.op = "sym_cmp" => ret.val = LexCmp(NameOf(ret.arg), NameOf(ret.arg2))

\* a name compared as smaller than a longer name that it is a prefix of
C9_Witness ==
  /\ ret.op = "sym_cmp" /\ ret.val = -1
  /\ StrLen(NameOf(ret.arg)) = 1
  /\ StrLen(NameOf(ret.arg2)) = UINT16_MAX
  /\ Prefix(NameOf(ret.arg2), 1) = NameOf(ret.arg)

\* C10 as stated: symname_p("+") is false and symname_p("+@") is true.
C10_Original ==
  ret.op = "symname_p" =>
    /\ cname = CStr(<<ch.plus>>) => ret.val = 0
    /\ cname = CStr(<<ch.plus, ch.at>>) => ret.val = 1

\* C10: symname_p("+") is true and symname_p("+@") is true.
C10_PlusOperator ==
  ret.op = "symname_p" =>
    /\ cname = CStr(<<ch.plus>>) => ret.val = 1
    /\ cname = CStr(<<ch.plus, ch.at>>) => ret.val = 1

\* the classifier has run on "+@"
C10_Witness ==
  ret.op = "symname_p" /\ cname = CStr(<<ch.plus, ch.at>>)

\* ------------------------------------------------ classifier, by grammar
\* the name a C string stands for: its bytes before the first 0
CName(s) ==
  LET Z == {i \in 1..Len(s.bytes) : s.bytes[i] = 0}
  IN  IF Z = {} THEN s.bytes
      ELSE SubSeq(s.bytes, 1, (CHOOSE i \in Z : \A j \in Z : i <= j) - 1)
From(n, k) == SubSeq(n, k, Len(n))

Letters == (65..90) \cup (97..122)
Digits == 48..57
IdentChars == Letters \cup Digits \cup {ch.underscore}
Punctuation ==
  {ch.tilde, ch.star, ch.dollar, ch.question, ch.bang, ch.at, ch.slash,
   ch.backslash, ch.semicolon, ch.comma, ch.dot, ch.eq, ch.colon, ch.lt,
   ch.gt, ch.dquote, ch.amp, ch.backtick, ch.quote, ch.plus}
AllIn(r, S) == \A i \in 1..Len(r) : r[i] \in S
\* a letter or underscore followed by identifier characters
IdentTail(r) ==
  Len(r) >= 1 /\ r[1] \in Letters \cup {ch.underscore} /\ AllIn(r, IdentChars)

\* names that start with '$', with up to MaxClsLen further bytes
DollarAlphabet == {ch.nul, ch.bang, ch.minus, ch.zero, ch.one, ch.two, ch.w,
                   ch.underscore, 200}
DollarInputs == {CStr(<<ch.dollar>> \o b) : b \in SeqsUpTo(DollarAlphabet, MaxClsLen)}

InitDollar ==
  /\ InitRegistry
  /\ cname \in DollarInputs

SpecDollar == InitDollar /\ [][NextCls]_vars

\* the special-global patterns as the claim words them
SpecialGlobalAsClaimed(r) ==
  \/ Len(r) = 1 /\ r[1] \in Punctuation
  \/ Len(r) = 2 /\ r[1] = ch.minus /\ r[2] \in IdentChars
  \/ Len(r) >= 1 /\ AllIn(r, Digits)

\* the special-global patterns of the code: '-' may stand alone, and a
\* run of digits that starts with 0 is the single digit 0
SpecialGlobal(r) ==
  \/ Len(r) = 1 /\ r[1] \in Punctuation
  \/ Len(r) = 1 /\ r[1] = ch.minus
  \/ Len(r) = 2 /\ r[1] = ch.minus /\ r[2] \in IdentChars
  \/ Len(r) >= 1 /\ AllIn(r, Digits) /\ (r[1] = ch.zero => Len(r) = 1)

\* C11 as stated: a '$' name is bare iff the rest is one punctuation
\* character, '-' plus one identifier character, one or more digits, or an
\* identifier tail; so "$01" is bare.
C11_Original ==
  (ret.op = "symname_p" /\ At(cname, 1) = ch.dollar) =>
    (ret.val = 1 <=>
       (SpecialGlobalAsClaimed(From(CName(cname), 2)) \/ IdentTail(From(CName(cname), 2))))

\* C11: a '$' name is bare iff the rest is one punctuation character, '-'
\* alone or with one identifier character, the digit 0, a run of digits
\* not starting with 0, or an identifier tail without suffix; "$!", "$-w",
\* "$0", "$1", "$12" are bare, "$01" and "$" are not.
C11_DollarNames ==
  (ret.op = "symname_p" /\ At(cname, 1) = ch.dollar) =>
    /\ ret.val = 1 <=>
         (SpecialGlobal(From(CName(cname), 2)) \/ IdentTail(From(CName(cname), 2)))
    /\ cname \in {CStr(<<ch.dollar, ch.bang>>), CStr(<<ch.dollar, ch.minus, ch.w>>),
                  CStr(<<ch.dollar, ch.zero>>), CStr(<<ch.dollar, ch.one>>),
                  CStr(<<ch.dollar, ch.one, ch.two>>)} => ret.val = 1
    /\ cname \in {CStr(<<ch.dollar>>), CStr(<<ch.dollar, ch.zero, ch.one>>)} => ret.val = 0

\* the classifier has run on "$12"
C11_Witness ==
  ret.op = "symname_p" /\ cname = CStr(<<ch.dollar, ch.one, ch.two>>) /\ ret.val = 1

\* the first bytes that select an operator case of symname_p
OpPrefixes == {ch.lt, ch.gt, ch.eq, ch.star, ch.bang, ch.plus, ch.minus, ch.bar,
               ch.amp, ch.caret, ch.slash, ch.percent, ch.tilde, ch.backtick,
               ch.lbrack}

\* "foo", "foo!", "Foo", "Foo!", "1abc", ":"
IdentExamples ==
  [foo |-> CStr(<<102, 111, 111>>), foo_bang |-> CStr(<<102, 111, 111, 33>>),
   Foo |-> CStr(<<70, 111, 111>>), Foo_bang |-> CStr(<<70, 111, 111, 33>>),
   one_abc |-> CStr(<<49, 97, 98, 99>>), colon |-> CStr(<<58>>)]

IdentAlphabet == {ch.nul, ch.a, ch.upA, ch.one, ch.underscore, ch.bang,
                  ch.question, ch.eq, ch.colon, 200, 255}
IdentInputs ==
  {CStr(b) : b \in SeqsUpTo(IdentAlphabet, MaxClsLen)}
    \cup {IdentExamples[f] : f \in DOMAIN IdentExamples}

InitIdent ==
  /\ InitRegistry
  /\ cname \in IdentInputs

SpecIdent == InitIdent /\ [][NextCls]_vars

\* a letter or underscore, identifier characters, and at most one of
\* ! ? = at the end when the first byte is not an uppercase letter
IdentName(n) ==
  /\ Len(n) >= 1
  /\ n[1] \in Letters \cup {ch.underscore}
  /\ \/ AllIn(n, IdentChars)
     \/ /\ n[1] \notin 65..90
        /\ n[Len(n)] \in {ch.bang, ch.question, ch.eq}
        /\ AllIn(SubSeq(n, 1, Len(n) - 1), IdentChars)

\* C12: a name that does not start with '$', '@' or an operator prefix is
\* bare iff it is a letter or underscore, then ASCII letters, digits and
\* underscores, then at most one of ! ? = unless it starts in upper case;
\* "foo", "foo!", "Foo" are bare, "Foo!", "1abc", ":" and "" are not.
C12_IdentifierNames ==
  (ret.op = "symname_p"
     /\ At(cname, 1) \notin OpPrefixes \cup {ch.dollar, ch.at}) =>
    /\ ret.val = 1 <=> IdentName(CName(cname))
    /\ cname \in {IdentExamples.foo, IdentExamples.foo_bang, IdentExamples.Foo}
         => ret.val = 1
    /\ cname \in {IdentExamples.Foo_bang, IdentExamples.one_abc,
                  IdentExamples.colon, CStr(<<>>)} => ret.val = 0

\* the classifier has accepted "foo!"
C12_Witness ==
  ret.op = "symname_p" /\ ret.val = 1 /\ cname = IdentExamples.foo_bang

\* names that start with an operator prefix, with up to MaxOpLen - 1
\* further bytes
OpFollowers == {ch.nul, ch.lt, ch.eq, ch.gt, ch.tilde, ch.star, ch.at, ch.bar,
                ch.amp, ch.rbrack, ch.a}
OpInputs ==
  {CStr(<<c>> \o b) : c \in OpPrefixes, b \in SeqsUpTo(OpFollowers, MaxOpLen - 1)}

InitOps ==
  /\ InitRegistry
  /\ cname \in OpInputs

SpecOps == InitOps /\ [][NextCls]_vars

\* the operator names
OperatorTokens ==
  {<<ch.lt>>, <<ch.lt, ch.lt>>, <<ch.lt, ch.eq>>, <<ch.lt, ch.eq, ch.gt>>,
   <<ch.gt>>, <<ch.gt, ch.gt>>, <<ch.gt, ch.eq>>,
   <<ch.eq, ch.tilde>>, <<ch.eq, ch.eq>>, <<ch.eq, ch.eq, ch.eq>>,
   <<ch.star>>, <<ch.star, ch.star>>, <<ch.bang>>, <<ch.bang, ch.eq>>,
   <<ch.plus>>, <<ch.plus, ch.at>>, <<ch.minus>>, <<ch.minus, ch.at>>,
   <<ch.bar>>, <<ch.bar, ch.bar>>, <<ch.amp>>, <<ch.amp, ch.amp>>,
   <<ch.caret>>, <<ch.slash>>, <<ch.percent>>, <<ch.tilde>>, <<ch.backtick>>,
   <<ch.lbrack, ch.rbrack>>, <<ch.lbrack, ch.rbrack, ch.eq>>}

\* the operator names the claim lists as bare, and the names it lists as not bare
OpsClaimedBare ==
  {<<ch.lt, ch.lt>>, <<ch.lt, ch.eq, ch.gt>>, <<ch.eq, ch.eq>>,
   <<ch.eq, ch.eq, ch.eq>>, <<ch.eq, ch.tilde>>, <<ch.star, ch.star>>,
   <<ch.bang, ch.eq>>, <<ch.plus, ch.at>>, <<ch.minus, ch.at>>,
   <<ch.bar, ch.bar>>, <<ch.amp, ch.amp>>, <<ch.lbrack, ch.rbrack>>,
   <<ch.lbrack, ch.rbrack, ch.eq>>}
OpsClaimedNotBare ==
  {<<ch.eq>>, <<ch.lbrack>>, <<ch.lbrack, ch.a>>, <<ch.lt, ch.lt, ch.lt>>,
   <<ch.eq, ch.eq, ch.eq, ch.eq>>, <<ch.lbrack, ch.rbrack, ch.eq, ch.eq>>,
   <<ch.plus, ch.at, ch.at>>, <<ch.star, ch.star, ch.eq>>}

\* C18: a name that starts with an operator prefix is bare only if it is
\* exactly one of the operator names; the listed operators are bare; a lone
\* "=", a "[" without "]" and an operator followed by a byte its grammar
\* does not accept are not bare.
C18_OperatorNames ==
  (ret.op = "symname_p" /\ At(cname, 1) \in OpPrefixes) =>
    /\ ret.val = 1 <=> CName(cname) \in OperatorTokens
    /\ CName(cname) \in OpsClaimedBare => ret.val = 1
    /\ CName(cname) \in OpsClaimedNotBare => ret.val = 0
    /\ \A t \in OperatorTokens :
         (/\ Len(CName(cname)) > Len(t)
          /\ SubSeq(CName(cname), 1, Len(t)) = t
          /\ CName(cname) \notin OperatorTokens) => ret.val = 0

\* the classifier has rejected "[]=="
C18_Witness ==
  /\ ret.op = "symname_p" /\ ret.val = 0
  /\ cname = CStr(<<ch.lbrack, ch.rbrack, ch.eq, ch.eq>>)

\* C13: the display form of an interned name is the bare one iff symname_p
\* accepts the name and the name's length equals its length up to the first
\* 0 byte, in sym_inspect and in mrb_sym2name; a name with an embedded 0 is
\* displayed escaped, whatever stands before the 0.
C13_DisplayForm ==
  phase = "open" =>
    /\ \A i \in Interned :
         LET n    == NameSeq[i]
             cs   == [null |-> FALSE, bytes |-> n.body, rep |-> n.rep]
             bare == symname_p(cs) /\ strlen(cs) = StrLen(n)
         IN  /\ sym_inspect(name2sym, heap, interned[i]).form
                  = IF bare THEN "bare" ELSE "escaped"
             /\ mrb_sym2name(name2sym, heap, interned[i]).form
                  = IF bare THEN "bare" ELSE "escaped"
             /\ (\E j \in 1..Len(n.body) : n.body[j] = 0) =>
                  sym_inspect(name2sym, heap, interned[i]).form = "escaped"
    /\ (ret.op \in {"sym_inspect", "mrb_sym2name"} /\ ret.arg \in LiveSyms) =>
         ret.kind = sym_inspect(name2sym, heap, ret.arg).form

\* the name "a\0a", stored as a heap copy, has been displayed escaped
C13_Witness ==
  /\ ret.op = "sym_inspect" /\ ret.kind = "escaped" /\ ret.ptr.seg = "heap"
  /\ NameOf(ret.arg) = Str(<<ch.a, ch.nul, ch.a>>, 0)

\* the ids that intern has returned
Returned == {interned[i] : i \in Interned}

\* C14: mrb_sym2name_len on an id that no entry carries (0, an id above the
\* counter) returns NULL with length 0 as an ordinary result and changes
\* nothing; on an id that intern has returned it never returns NULL before
\* teardown.
C14_LookupMissing ==
  [][ /\ ret'.op = "mrb_sym2name_len" =>
           /\ ret'.kind = "name"
           /\ name2sym' = name2sym /\ symidx' = symidx /\ heap' = heap
           /\ freed' = freed /\ phase' = phase /\ interned' = interned
           /\ ret'.arg \notin Returned => (ret'.ptr = NullPtr /\ ret'.len = 0)
           /\ ret'.arg \in Returned => ret'.ptr # NullPtr
      /\ phase' # "closed" =>
           \A sym \in 0..(MaxSyms + 1) :
             LET r == mrb_sym2name_len(name2sym', sym)
             IN  /\ (sym = 0 \/ sym > symidx') => (r.name = NullPtr /\ r.len = 0)
                 /\ sym \in {interned'[i] : i \in NameIdx} \ {0} => r.name # NullPtr
    ]_vars

\* a lookup of an id above the counter in a table that has entries
C14_Witness ==
  /\ ret.op = "mrb_sym2name_len" /\ ret.ptr = NullPtr /\ ret.len = 0
  /\ ret.arg > symidx /\ symidx >= 1

\* C15: in every state before teardown, also after a call that raised, the
\* counter equals the number of entries and the ids in use are 1..counter.
C15_Atomicity ==
  phase # "closed" =>
    /\ symidx = Cardinality(Used(name2sym))
    /\ LiveSyms = 1..symidx

\* the name pointers of the entries stored as copies
OwnedNames(h) == {kh_key(h, k).name : k \in {j \in Used(h) : ~kh_key(h, j).lit}}

\* C16: an intern call that finds its string leaves table, counter and heap
\* as they were (no copy is made, the entry keeps its pointer and its lit
\* flag); before teardown the blocks that intern allocated are exactly the
\* names of the entries stored as copies, one block each, and the entries
\* stored by reference point at the caller's bytes.
C16_FoundChangesNothing ==
  [][ /\ (ret'.op \in InternOps /\ ret'.kind = "sym" /\ ret'.arg \in Interned) =>
           /\ name2sym' = name2sym /\ heap' = heap /\ symidx' = symidx
           /\ freed' = freed /\ phase' = phase
      /\ phase' # "closed" =>
           /\ OwnedNames(name2sym') = {Ptr("heap", a) : a \in 1..Len(heap')}
           /\ Cardinality({k \in Used(name2sym') : ~kh_key(name2sym', k).lit})
                = Len(heap')
           /\ \A k \in Used(name2sym') :
                kh_key(name2sym', k).lit => kh_key(name2sym', k).name.seg = "static"
    ]_vars

\* an owned-mode intern has found an entry stored by reference, with one
\* other entry stored as a copy
C16_Witness ==
  /\ ret.op = "mrb_intern" /\ ret.kind = "sym" /\ Len(heap) = 1
  /\ Cardinality(Used(name2sym)) = 2
  /\ \E k \in Used(name2sym) :
       /\ kh_value(name2sym, k) = ret.val
       /\ kh_key(name2sym, k).lit
       /\ kh_key(name2sym, k).name = Ptr("static", ret.arg)

\* C17: a mrb_check_intern call, whether it returns a symbol value, nil or
\* raises ArgumentError, leaves the table (entries, values, lit flags), the
\* counter, the heap and the freed blocks as they were.
C17_CheckInternPure ==
  [][ ret'.op = "mrb_check_intern" =>
        /\ ret'.kind \in {"sym", "nil", "ArgumentError"}
        /\ name2sym' = name2sym /\ symidx' = symidx
        /\ heap' = heap /\ freed' = freed /\ phase' = phase
    ]_vars

\* mrb_check_intern has answered nil while an entry stored as a copy exists
C17_Witness ==
  /\ ret.op = "mrb_check_intern" /\ ret.kind = "nil"
  /\ Len(heap) = 1 /\ symidx = 1 /\ Cardinality(Used(name2sym)) = 1

\* mrb_check_intern has raised ArgumentError on a non-empty table
C17_WitnessTooLong ==
  /\ ret.op = "mrb_check_intern" /\ ret.kind = "ArgumentError"
  /\ Cardinality(Used(name2sym)) = 1

\* C19: before teardown, for symbol values a and b that intern returned
\* (the values of the entries and the value first returned for each string),
\* sym_cmp(a, b) is 0 exactly when a = b, and sym_cmp never leaves by the
\* return for different values with equal length and equal bytes.
C19_CompareZeroIffSame ==
  phase = "open" =>
    \A a, b \in Returned \cup LiveSyms :
      /\ sym_cmp(name2sym, heap, a, b) = 0 <=> a = b
      /\ sym_cmp_return(name2sym, heap, a, b) # "equal"
      /\ sym_cmp_return(name2sym, heap, a, b) = "same" <=> a = b

\* sym_cmp was called on two different symbol values whose names have the
\* same length, and answered non-zero
C19_Witness ==
  /\ ret.op = "sym_cmp" /\ ret.arg # ret.arg2 /\ ret.val # 0
  /\ {ret.arg, ret.arg2} \subseteq Returned
  /\ mrb_sym2name_len(name2sym, ret.arg).len
       = mrb_sym2name_len(name2sym, ret.arg2).len

====
